---- MODULE Spec2Model ----
(***************************************************************************)
(* Model of rede_cria_tabelas:                                             *)
(*   dados_cnpj_baixa_resiliente.py       download_file and its helpers    *)
(*   dados_cnpj_para_sqlite_progresso.py  the staged loader and its ledger *)
(*                                                                         *)
(* Three specifications share the module:                                  *)
(*   SpecBaixa   one call of download_file, the process may be terminated  *)
(*   Spec        runs of the loader script, interrupted and rerun          *)
(*   SpecLedger  arbitrary calls of marcar_etapa_concluida                 *)
(***************************************************************************)
EXTENDS Integers, Sequences, FiniteSets, TLC

VARIABLES
    \* ---- dados_cnpj_baixa_resiliente.py : download_file ----
    dpc,            \* position inside download_file
    sonda,          \* outcome of the request made by get_remote_file_size
    remote_size,    \* local variable remote_size
    arquivo,        \* the file at file_path
    inicial,        \* the file at file_path when download_file was called
    tentativa,      \* loop variable of "for tentativa in range(1, max_tentativas + 1)"
    corpo,          \* response body being streamed in the current attempt
    retorno,        \* value returned by download_file
    n_tentativas,   \* number of body transfers (requests.get of line 81) started
    n_validacoes,   \* number of times line 100 was evaluated
    n_falhas,       \* number of times the except block of line 106 ran
    n_corpos,       \* number of bodies streamed to their end (loop of line 94 left)
    \* ---- dados_cnpj_para_sqlite_progresso.py ----
    pc,             \* position inside the script
    execucao,       \* number of the current run of the script
    zips,           \* archives in pasta_compactados
    novos,          \* archives that reached pasta_compactados after the extraction stage was
                    \* marked, each with the run it arrived in
    db_file,        \* whether dados-publicos/cnpj.db exists
    db_exists,      \* module variable db_exists
    progresso_existe, \* whether table _progresso exists
    progresso,      \* rows of table _progresso
    saida,          \* extracted files in pasta_saida
    tabelas,        \* lookup and fact tables of the database
    indices,        \* tables that have their idx_<table> index
    arquivos_zip,   \* list arquivos_zip of the extraction stage
    extraidos,      \* archives extracted by the last execution of the extraction stage
    n,              \* number of the stage being run within its group
    arquivos,       \* list arquivo(s) globbed by the stage being run
    j,              \* position in arquivos
    anexados,       \* per fact table: shards appended by its last load
    erro,           \* exception that ended the run
    substituicoes,  \* per lookup table: number of times line 78 replaced it
    \* ---- calls of the ledger functions ----
    relogio,        \* datetime('now')
    vezes           \* number of calls of marcar_etapa_concluida per stage

varsBaixa == <<dpc, sonda, remote_size, arquivo, inicial, tentativa, corpo,
               retorno, n_tentativas, n_validacoes, n_falhas, n_corpos>>
varsCarga == <<pc, execucao, zips, novos, db_file, db_exists, progresso_existe, progresso,
               saida, tabelas, indices, arquivos_zip, extraidos, n, arquivos, j,
               anexados, erro, substituicoes>>
varsLedger == <<relogio, vezes>>
vars == <<varsBaixa, varsCarga, varsLedger>>

----------------------------------------------------------------------------
(* Bounds *)
MaxSize == 2        \* largest file and body size, in chunks
MaxShards == 2      \* largest number of shards of one fact table
MaxExecucoes == 2   \* runs of the loader script
MaxMarcas == 3      \* calls of marcar_etapa_concluida in SpecLedger

(* Program constants *)
max_tentativas == 3
bApagaDescompactadosAposUso == TRUE
NumZipsEsperado == 37
NAO_DEFINIDO == -2  \* a local variable that was not assigned yet

----------------------------------------------------------------------------
(* dados_cnpj_baixa_resiliente.py                                          *)

\* A path that holds no file.
Ausente == [existe |-> FALSE, size |-> 0, zip_ok |-> FALSE, origem |-> "nenhuma"]

\* A file: its size in chunks, whether its bytes form a ZIP archive whose
\* entries all pass their CRC, and who wrote it.
Arquivo(s, z, o) == [existe |-> TRUE, size |-> s, zip_ok |-> z, origem |-> o]

\* Files that may be at file_path when download_file is called.
ArquivosLocais ==
    {Ausente} \cup {Arquivo(s, z, "local") : s \in 0..MaxSize, z \in BOOLEAN}

\* Outcomes of the request of get_remote_file_size: an exception, or a
\* response with a status and a Content-Length header (-1: header absent).
Sondas ==
    {[tipo |-> "excecao", status |-> 0, content_length |-> -1]}
    \cup {[tipo |-> "resposta", status |-> s, content_length |-> c] :
            s \in {200, 404}, c \in -1..MaxSize}

\* Bodies the server may send: a length and whether the complete body is a
\* valid archive (an empty body never is).
Corpos == {[size |-> s, zip_ok |-> z] : s \in 0..MaxSize, z \in BOOLEAN} \
          {[size |-> 0, zip_ok |-> TRUE]}

os_path_exists(f) == f.existe
os_path_getsize(f) == f.size

\* testzip() names the first bad entry: the result compared the wrong way round.
is_zip_valid_invertido(f) == f.existe /\ ~f.zip_ok

\* Lines 38-44.
is_zip_valid(f) == f.existe /\ f.zip_ok

\* The probe answers 0 when it fails, as the definition of lines 27-35 does.
get_remote_file_size_zero(r) ==
    IF r.tipo = "resposta" /\ r.status = 200
    THEN (IF r.content_length = -1 THEN 0 ELSE r.content_length)
    ELSE 0

\* Lines 47-55 (the definition in force; it shadows the one of lines 27-35).
get_remote_file_size(r) ==
    IF r.tipo = "resposta" /\ r.status = 200
    THEN (IF r.content_length = -1 THEN 0 ELSE r.content_length)
    ELSE -1

\* The local copy is accepted on its size alone.
local_ok_so_tamanho(f, rs) == os_path_getsize(f) = rs

\* Line 70: the local copy is accepted without any transfer.
local_ok(f, rs) == os_path_getsize(f) = rs /\ is_zip_valid(f)

\* The downloaded file is accepted without comparing its size.
download_ok_so_zip(f, rs) == is_zip_valid(f)

\* Line 100: the downloaded file is accepted.
download_ok(f, rs) == is_zip_valid(f) /\ os_path_getsize(f) = rs

\* The except block does not remove the file.
apos_except_sem_remove(f) == f

\* Lines 108-109: what the except block leaves at file_path.
apos_except(f) == IF os_path_exists(f) THEN Ausente ELSE f

BaixaParada ==
    /\ dpc = "fora" /\ sonda = [tipo |-> "nenhuma", status |-> 0, content_length |-> -1]
    /\ remote_size = NAO_DEFINIDO /\ arquivo = Ausente /\ inicial = Ausente
    /\ tentativa = 0 /\ corpo = [size |-> 0, zip_ok |-> FALSE]
    /\ retorno = "nenhum" /\ n_tentativas = 0 /\ n_validacoes = 0 /\ n_falhas = 0
    /\ n_corpos = 0

InitBaixa ==
    /\ dpc = "sonda"
    /\ sonda = [tipo |-> "nenhuma", status |-> 0, content_length |-> -1]
    /\ remote_size = NAO_DEFINIDO
    /\ arquivo \in ArquivosLocais
    /\ inicial = arquivo
    /\ tentativa = 0
    /\ corpo = [size |-> 0, zip_ok |-> FALSE]
    /\ retorno = "nenhum"
    /\ n_tentativas = 0
    /\ n_validacoes = 0
    /\ n_falhas = 0
    /\ n_corpos = 0

\* Lines 63-66.
Sondar ==
    /\ dpc = "sonda"
    /\ \E r \in Sondas :
        /\ sonda' = r
        /\ remote_size' = get_remote_file_size(r)
        /\ IF get_remote_file_size(r) = -1
           THEN dpc' = "fim" /\ retorno' = "False"
           ELSE dpc' = "local" /\ retorno' = retorno
    /\ UNCHANGED <<arquivo, inicial, tentativa, corpo, n_tentativas, n_validacoes>>
    /\ UNCHANGED <<n_falhas, n_corpos, varsCarga, varsLedger>>

\* Lines 69-78.
VerificarLocal ==
    /\ dpc = "local"
    /\ IF os_path_exists(arquivo)
       THEN IF local_ok(arquivo, remote_size)
            THEN dpc' = "fim" /\ retorno' = "True"
                 /\ UNCHANGED <<arquivo, tentativa>>
            ELSE dpc' = "requisicao" /\ arquivo' = Ausente /\ tentativa' = 1
                 /\ retorno' = retorno
       ELSE dpc' = "requisicao" /\ tentativa' = 1 /\ UNCHANGED <<arquivo, retorno>>
    /\ UNCHANGED <<sonda, remote_size, inicial, corpo, n_tentativas, n_validacoes>>
    /\ UNCHANGED <<n_falhas, n_corpos, varsCarga, varsLedger>>

\* Lines 81-85: the request succeeds and a body starts to arrive.
Requisitar ==
    /\ dpc = "requisicao"
    /\ n_tentativas' = n_tentativas + 1
    /\ \E c \in Corpos : corpo' = c
    /\ dpc' = "abrir"
    /\ UNCHANGED <<sonda, remote_size, arquivo, inicial, tentativa, retorno, n_validacoes>>
    /\ UNCHANGED <<n_falhas, n_corpos, varsCarga, varsLedger>>

\* Lines 81-84: requests.get or raise_for_status raises.
RequisitarFalha ==
    /\ dpc = "requisicao"
    /\ n_tentativas' = n_tentativas + 1
    /\ dpc' = "except"
    /\ UNCHANGED <<sonda, remote_size, arquivo, inicial, tentativa, corpo, retorno,
                   n_validacoes>>
    /\ UNCHANGED <<n_falhas, n_corpos, varsCarga, varsLedger>>

\* Line 87: open(file_path, "wb").
Abrir ==
    /\ dpc = "abrir"
    /\ arquivo' = Arquivo(0, FALSE, "download")
    /\ dpc' = "escrever"
    /\ UNCHANGED <<sonda, remote_size, inicial, tentativa, corpo, retorno,
                   n_tentativas, n_validacoes>>
    /\ UNCHANGED <<n_falhas, n_corpos, varsCarga, varsLedger>>

\* Lines 94-97: one chunk is written; the file is a valid archive only
\* when the whole of a valid body is in it.
EscreverChunk ==
    /\ dpc = "escrever"
    /\ arquivo.size < corpo.size
    /\ arquivo' = Arquivo(arquivo.size + 1,
                          corpo.zip_ok /\ arquivo.size + 1 = corpo.size, "download")
    /\ UNCHANGED <<dpc, sonda, remote_size, inicial, tentativa, corpo, retorno,
                   n_tentativas, n_validacoes>>
    /\ UNCHANGED <<n_falhas, n_corpos, varsCarga, varsLedger>>

\* Line 94: iter_content is exhausted, the with blocks close the file.
FimDoCorpo ==
    /\ dpc = "escrever"
    /\ arquivo.size = corpo.size
    /\ dpc' = "validar"
    /\ n_corpos' = n_corpos + 1
    /\ UNCHANGED <<sonda, remote_size, arquivo, inicial, tentativa, corpo, retorno,
                   n_tentativas, n_validacoes>>
    /\ UNCHANGED <<n_falhas, varsCarga, varsLedger>>

\* Line 94: iter_content raises (connection lost while streaming).
EscreverFalha ==
    /\ dpc = "escrever"
    /\ arquivo.size < corpo.size
    /\ dpc' = "except"
    /\ UNCHANGED <<sonda, remote_size, arquivo, inicial, tentativa, corpo, retorno,
                   n_tentativas, n_validacoes>>
    /\ UNCHANGED <<n_falhas, n_corpos, varsCarga, varsLedger>>

\* Lines 100-104.
Validar ==
    /\ dpc = "validar"
    /\ n_validacoes' = n_validacoes + 1
    /\ IF download_ok(arquivo, remote_size)
       THEN dpc' = "fim" /\ retorno' = "True"
       ELSE dpc' = "except" /\ retorno' = retorno
    /\ UNCHANGED <<sonda, remote_size, arquivo, inicial, tentativa, corpo, n_tentativas>>
    /\ UNCHANGED <<n_falhas, n_corpos, varsCarga, varsLedger>>

\* range(1, max_tentativas + 2): the loop runs once more.
Except_mais_uma ==
    /\ dpc = "except"
    /\ arquivo' = apos_except(arquivo)
    /\ n_falhas' = n_falhas + 1
    /\ IF tentativa <= max_tentativas
       THEN dpc' = "requisicao" /\ tentativa' = tentativa + 1 /\ retorno' = retorno
       ELSE dpc' = "fim" /\ retorno' = "False" /\ tentativa' = tentativa
    /\ UNCHANGED <<sonda, remote_size, inicial, corpo, n_tentativas, n_validacoes>>
    /\ UNCHANGED <<n_corpos, varsCarga, varsLedger>>

\* Lines 106-112: the except block, then the next iteration or the final return.
Except ==
    /\ dpc = "except"
    /\ arquivo' = apos_except(arquivo)
    /\ n_falhas' = n_falhas + 1
    /\ IF tentativa < max_tentativas
       THEN dpc' = "requisicao" /\ tentativa' = tentativa + 1 /\ retorno' = retorno
       ELSE dpc' = "fim" /\ retorno' = "False" /\ tentativa' = tentativa
    /\ UNCHANGED <<sonda, remote_size, inicial, corpo, n_tentativas, n_validacoes>>
    /\ UNCHANGED <<n_corpos, varsCarga, varsLedger>>

\* The process is terminated inside download_file.
Terminar ==
    /\ dpc \in {"sonda", "local", "requisicao", "abrir", "escrever", "validar", "except"}
    /\ dpc' = "terminado"
    /\ UNCHANGED <<sonda, remote_size, arquivo, inicial, tentativa, corpo, retorno,
                   n_tentativas, n_validacoes>>
    /\ UNCHANGED <<n_falhas, n_corpos, varsCarga, varsLedger>>

----------------------------------------------------------------------------
(* dados_cnpj_para_sqlite_progresso.py                                     *)

\* The six calls of carregaTabelaCodigo (lines 85-90), in order.
LOOKUPS == <<"cnae", "motivo", "municipio", "natureza_juridica", "pais",
             "qualificacao_socio">>

\* The keys of TABELAS (lines 93-122), in order.
TABELAS == <<"empresas", "estabelecimento", "socios_original", "simples">>

Range(s) == {s[x] : x \in DOMAIN s}

\* Rows of each decoded file.
LinhasPorArquivo == 2

\* A decoded file of pasta_saida, and the archive of pasta_compactados that
\* holds it: the table its extension belongs to and its shard number.
Arq(t, p) == [tabela |-> t, parte |-> p]

ArquivosDeCodigo == {Arq(t, 1) : t \in Range(LOOKUPS)}
ArquivosDeCarga == {Arq(t, p) : t \in Range(TABELAS), p \in 1..MaxShards}

\* Contents of pasta_compactados the script may be started with: the lookup
\* archives, all of them or all but the first, and the same number of shards
\* of every fact table.
ConjuntosDeZips ==
    {cs \cup {Arq(t, p) : t \in Range(TABELAS), p \in 1..q} :
        cs \in {ArquivosDeCodigo, ArquivosDeCodigo \ {Arq(LOOKUPS[1], 1)}},
        q \in 0..MaxShards}

\* An archive that is not among those pasta_compactados started with.
NovoZip == Arq(TABELAS[1], MaxShards + 1)

\* The archives that arrived later, as glob sees them.
Chegados == {x.arq : x \in novos}

\* Stage ids.
EtapaDescompactar == <<"descompactar", "">>
EtapaCodigo(t) == <<"codigo", t>>
EtapaCarga(t) == <<"carga", t>>
ETAPAS == {EtapaDescompactar} \cup {EtapaCodigo(t) : t \in Range(LOOKUPS)}
          \cup {EtapaCarga(t) : t \in Range(TABELAS)}

\* Position of a file in a directory listing.
Ordem(f) ==
    IF \E x \in DOMAIN LOOKUPS : LOOKUPS[x] = f.tabela
    THEN CHOOSE x \in DOMAIN LOOKUPS : LOOKUPS[x] = f.tabela
    ELSE Len(LOOKUPS)
         + ((CHOOSE x \in DOMAIN TABELAS : TABELAS[x] = f.tabela) - 1) * (MaxShards + 1)
         + f.parte

RECURSIVE Lista(_)
Lista(S) ==
    IF S = {} THEN <<>>
    ELSE LET m == CHOOSE x \in S : \A y \in S : Ordem(x) <= Ordem(y)
         IN <<m>> \o Lista(S \ {m})

\* glob.glob(os.path.join(pasta, '*' + ext)) for the extension of table t.
glob(pasta, t) == Lista({f \in pasta : f.tabela = t})

\* pd.read_csv / dd.read_csv: the rows of a decoded file.
read_csv(f) == [c \in 1..LinhasPorArquivo |-> [codigo |-> c, parte |-> f.parte]]

TabelaAusente == [existe |-> FALSE, linhas |-> <<>>]

\* to_sql called with if_exists='append'.
to_sql_replace_anexa(tab, df) == [existe |-> TRUE, linhas |-> tab.linhas \o df]

\* df.to_sql(nomeTabela, conn, if_exists='replace')
to_sql_replace(tab, df) == [existe |-> TRUE, linhas |-> df]

\* ddf.to_sql(tabela, engine_url, if_exists='append')
to_sql_append(tab, df) == [existe |-> TRUE, linhas |-> tab.linhas \o df]

\* Lines 43-45.
etapa_concluida(p, etapa) ==
    LET res == {r \in p : r.etapa = etapa}
    IN res # {} /\ (CHOOSE r \in res : TRUE).status = "ok"

\* The ledger rewritten with the one new record.
marcar_apaga_outras(p, etapa, agora) ==
    {[etapa |-> etapa, status |-> "ok", data_execucao |-> agora]}

\* A plain INSERT into a table without the primary key.
marcar_sem_replace(p, etapa, agora) ==
    p \cup {[etapa |-> etapa, status |-> "ok", data_execucao |-> agora]}

\* Lines 47-49: INSERT OR REPLACE on the primary key etapa.
marcar_etapa_concluida(p, etapa, agora) ==
    {r \in p : r.etapa # etapa}
    \cup {[etapa |-> etapa, status |-> "ok", data_execucao |-> agora]}

\* The statement that follows stage number x of a group.
Proximo(grupo, x) ==
    IF grupo = "codigo"
    THEN (IF x < Len(LOOKUPS) THEN <<"codigo", x + 1>> ELSE <<"carga", 1>>)
    ELSE (IF x < Len(TABELAS) THEN <<"carga", x + 1>> ELSE <<"fim", 0>>)

CargaParada ==
    /\ pc = "fora" /\ execucao = 0 /\ zips = {} /\ novos = {} /\ db_file = FALSE /\ db_exists = FALSE
    /\ progresso_existe = TRUE /\ progresso = {} /\ saida = {}
    /\ tabelas = [t \in Range(LOOKUPS) \cup Range(TABELAS) |-> TabelaAusente]
    /\ indices = {} /\ arquivos_zip = <<>> /\ extraidos = {} /\ n = 0
    /\ arquivos = <<>> /\ j = 0 /\ anexados = [t \in Range(TABELAS) |-> {}]
    /\ erro = "" /\ substituicoes = [t \in Range(LOOKUPS) |-> 0]

LedgerParado == relogio = 0 /\ vezes = [e \in ETAPAS |-> 0]

InitCarga ==
    /\ pc = "inicio"
    /\ execucao = 1
    /\ zips \in ConjuntosDeZips
    /\ novos = {}
    /\ db_file = FALSE
    /\ db_exists = FALSE
    /\ progresso_existe = FALSE
    /\ progresso = {}
    /\ saida = {}
    /\ tabelas = [t \in Range(LOOKUPS) \cup Range(TABELAS) |-> TabelaAusente]
    /\ indices = {}
    /\ arquivos_zip = <<>>
    /\ extraidos = {}
    /\ n = 0
    /\ arquivos = <<>>
    /\ j = 0
    /\ anexados = [t \in Range(TABELAS) |-> {}]
    /\ erro = ""
    /\ substituicoes = [t \in Range(LOOKUPS) |-> 0]

\* Lines 26-32: sqlite3.connect creates the database file.
Conectar ==
    /\ pc = "inicio"
    /\ db_exists' = db_file
    /\ db_file' = TRUE
    /\ pc' = IF db_file THEN "descompactar" ELSE "criar_progresso"
    /\ UNCHANGED <<execucao, zips, novos, progresso_existe, progresso, saida, tabelas, indices,
                   arquivos_zip, extraidos, n, arquivos, j, anexados, erro,
                   substituicoes>>
    /\ UNCHANGED <<varsBaixa, varsLedger>>

\* Lines 34-41.
CriarProgresso ==
    /\ pc = "criar_progresso"
    /\ progresso_existe' = TRUE
    /\ pc' = "descompactar"
    /\ UNCHANGED <<execucao, zips, novos, db_file, db_exists, progresso, saida, tabelas, indices,
                   arquivos_zip, extraidos, n, arquivos, j, anexados, erro,
                   substituicoes>>
    /\ UNCHANGED <<varsBaixa, varsLedger>>

\* Lines 52-66 without the ledger check of line 53.
Descompactar_sem_pular ==
    /\ pc = "descompactar"
    /\ IF ~progresso_existe
       THEN /\ pc' = "erro" /\ erro' = "OperationalError"
            /\ UNCHANGED <<arquivos_zip, extraidos, n, j>>
       ELSE /\ arquivos_zip' = Lista(zips \cup Chegados)
            /\ extraidos' = {}
            /\ j' = 1
            /\ pc' = IF Cardinality(zips \cup Chegados) # NumZipsEsperado THEN "prompt" ELSE "extrair"
            /\ UNCHANGED <<n, erro>>
    /\ UNCHANGED <<execucao, zips, novos, db_file, db_exists, progresso_existe, progresso, saida,
                   tabelas, indices, arquivos, anexados,
                   substituicoes>>
    /\ UNCHANGED <<varsBaixa, varsLedger>>

\* Lines 52-56 and 65-66.
Descompactar ==
    /\ pc = "descompactar"
    /\ IF ~progresso_existe
       THEN /\ pc' = "erro" /\ erro' = "OperationalError"
            /\ UNCHANGED <<arquivos_zip, extraidos, n, j>>
       ELSE IF etapa_concluida(progresso, EtapaDescompactar)
       THEN /\ pc' = "codigo" /\ n' = 1
            /\ UNCHANGED <<arquivos_zip, extraidos, j, erro>>
       ELSE /\ arquivos_zip' = Lista(zips \cup Chegados)
            /\ extraidos' = {}
            /\ j' = 1
            /\ pc' = IF Cardinality(zips \cup Chegados) # NumZipsEsperado THEN "prompt" ELSE "extrair"
            /\ UNCHANGED <<n, erro>>
    /\ UNCHANGED <<execucao, zips, novos, db_file, db_exists, progresso_existe, progresso, saida,
                   tabelas, indices, arquivos, anexados,
                   substituicoes>>
    /\ UNCHANGED <<varsBaixa, varsLedger>>

\* Lines 57-59.
Prompt ==
    /\ pc = "prompt"
    /\ \E r \in {"y", "n"} : pc' = IF r # "y" THEN "saiu" ELSE "extrair"
    /\ UNCHANGED <<execucao, zips, novos, db_file, db_exists, progresso_existe, progresso, saida,
                   tabelas, indices, arquivos_zip, extraidos, n, arquivos, j, anexados,
                   erro,
                   substituicoes>>
    /\ UNCHANGED <<varsBaixa, varsLedger>>

\* marcar_etapa_concluida indented into the loop body of lines 60-63.
Extrair_marca_no_laco ==
    /\ pc = "extrair"
    /\ j <= Len(arquivos_zip)
    /\ saida' = saida \cup {arquivos_zip[j]}
    /\ extraidos' = extraidos \cup {arquivos_zip[j]}
    /\ progresso' = marcar_etapa_concluida(progresso, EtapaDescompactar, execucao)
    /\ j' = j + 1
    /\ UNCHANGED <<pc, execucao, zips, novos, db_file, db_exists, progresso_existe,
                   tabelas, indices, arquivos_zip, n, arquivos, anexados, erro,
                   substituicoes>>
    /\ UNCHANGED <<varsBaixa, varsLedger>>

\* Lines 60-63: one archive is extracted into pasta_saida.
Extrair ==
    /\ pc = "extrair"
    /\ j <= Len(arquivos_zip)
    /\ saida' = saida \cup {arquivos_zip[j]}
    /\ extraidos' = extraidos \cup {arquivos_zip[j]}
    /\ j' = j + 1
    /\ UNCHANGED <<pc, execucao, zips, novos, db_file, db_exists, progresso_existe, progresso,
                   tabelas, indices, arquivos_zip, n, arquivos, anexados, erro,
                   substituicoes>>
    /\ UNCHANGED <<varsBaixa, varsLedger>>

\* Line 64.
MarcarDescompactar ==
    /\ pc = "extrair"
    /\ j > Len(arquivos_zip)
    /\ progresso' = marcar_etapa_concluida(progresso, EtapaDescompactar, execucao)
    /\ pc' = "codigo"
    /\ n' = 1
    /\ UNCHANGED <<execucao, zips, novos, db_file, db_exists, progresso_existe, saida, tabelas,
                   indices, arquivos_zip, extraidos, arquivos, j, anexados, erro,
                   substituicoes>>
    /\ UNCHANGED <<varsBaixa, varsLedger>>

\* Lines 70-77 with the empty glob passed over instead of raised.
CodigoInicio_engole_erro ==
    /\ pc = "codigo"
    /\ IF etapa_concluida(progresso, EtapaCodigo(LOOKUPS[n])) \/ glob(saida, LOOKUPS[n]) = <<>>
       THEN /\ pc' = Proximo("codigo", n)[1]
            /\ n' = Proximo("codigo", n)[2]
            /\ UNCHANGED <<arquivos, erro>>
       ELSE /\ arquivos' = <<glob(saida, LOOKUPS[n])[1]>>
            /\ pc' = "to_sql"
            /\ UNCHANGED <<n, erro>>
    /\ UNCHANGED <<execucao, zips, novos, db_file, db_exists, progresso_existe, progresso, saida,
                   tabelas, indices, arquivos_zip, extraidos, j, anexados, substituicoes>>
    /\ UNCHANGED <<varsBaixa, varsLedger>>

\* Lines 70-77: the ledger check, the glob and its [0].
CodigoInicio ==
    /\ pc = "codigo"
    /\ IF etapa_concluida(progresso, EtapaCodigo(LOOKUPS[n]))
       THEN /\ pc' = Proximo("codigo", n)[1]
            /\ n' = Proximo("codigo", n)[2]
            /\ UNCHANGED <<arquivos, erro>>
       ELSE IF glob(saida, LOOKUPS[n]) = <<>>
       THEN /\ pc' = "erro" /\ erro' = "IndexError"
            /\ UNCHANGED <<n, arquivos>>
       ELSE /\ arquivos' = <<glob(saida, LOOKUPS[n])[1]>>
            /\ pc' = "to_sql"
            /\ UNCHANGED <<n, erro>>
    /\ UNCHANGED <<execucao, zips, novos, db_file, db_exists, progresso_existe, progresso, saida,
                   tabelas, indices, arquivos_zip, extraidos, j, anexados, substituicoes>>
    /\ UNCHANGED <<varsBaixa, varsLedger>>

\* Line 78: the table is dropped, with its index, and written again.
CodigoToSql ==
    /\ pc = "to_sql"
    /\ tabelas' = [tabelas EXCEPT ![LOOKUPS[n]] = to_sql_replace(@, read_csv(arquivos[1]))]
    /\ indices' = indices \ {LOOKUPS[n]}
    /\ substituicoes' = [substituicoes EXCEPT ![LOOKUPS[n]] = @ + 1]
    /\ pc' = "index"
    /\ UNCHANGED <<execucao, zips, novos, db_file, db_exists, progresso_existe, progresso, saida,
                   arquivos_zip, extraidos, n, arquivos, j, anexados, erro>>
    /\ UNCHANGED <<varsBaixa, varsLedger>>

\* Lines 79-80.
CodigoIndex ==
    /\ pc = "index"
    /\ indices' = indices \cup {LOOKUPS[n]}
    /\ pc' = "remover_codigo"
    /\ UNCHANGED <<execucao, zips, novos, db_file, db_exists, progresso_existe, progresso, saida,
                   tabelas, arquivos_zip, extraidos, n, arquivos, j, anexados, erro,
                   substituicoes>>
    /\ UNCHANGED <<varsBaixa, varsLedger>>

\* Lines 81-82.
CodigoRemover ==
    /\ pc = "remover_codigo"
    /\ saida' = IF bApagaDescompactadosAposUso THEN saida \ {arquivos[1]} ELSE saida
    /\ pc' = "marcar_codigo"
    /\ UNCHANGED <<execucao, zips, novos, db_file, db_exists, progresso_existe, progresso,
                   tabelas, indices, arquivos_zip, extraidos, n, arquivos, j, anexados,
                   erro, substituicoes>>
    /\ UNCHANGED <<varsBaixa, varsLedger>>

\* Line 83.
CodigoMarcar ==
    /\ pc = "marcar_codigo"
    /\ progresso' = marcar_etapa_concluida(progresso, EtapaCodigo(LOOKUPS[n]), execucao)
    /\ pc' = Proximo("codigo", n)[1]
    /\ n' = Proximo("codigo", n)[2]
    /\ UNCHANGED <<execucao, zips, novos, db_file, db_exists, progresso_existe, saida, tabelas,
                   indices, arquivos_zip, extraidos, arquivos, j, anexados, erro,
                   substituicoes>>
    /\ UNCHANGED <<varsBaixa, varsLedger>>

\* Lines 124-128 without the ledger check.
CargaInicio_sem_pular ==
    /\ pc = "carga"
    /\ pc' = "drop" /\ n' = n
    /\ UNCHANGED <<execucao, zips, novos, db_file, db_exists, progresso_existe, progresso, saida,
                   tabelas, indices, arquivos_zip, extraidos, arquivos, j, anexados, erro,
                   substituicoes>>
    /\ UNCHANGED <<varsBaixa, varsLedger>>

\* Lines 124-128.
CargaInicio ==
    /\ pc = "carga"
    /\ IF etapa_concluida(progresso, EtapaCarga(TABELAS[n]))
       THEN pc' = Proximo("carga", n)[1] /\ n' = Proximo("carga", n)[2]
       ELSE pc' = "drop" /\ n' = n
    /\ UNCHANGED <<execucao, zips, novos, db_file, db_exists, progresso_existe, progresso, saida,
                   tabelas, indices, arquivos_zip, extraidos, arquivos, j, anexados, erro,
                   substituicoes>>
    /\ UNCHANGED <<varsBaixa, varsLedger>>

\* Lines 129-130.
CargaDrop ==
    /\ pc = "drop"
    /\ tabelas' = [tabelas EXCEPT ![TABELAS[n]] = TabelaAusente]
    /\ indices' = indices \ {TABELAS[n]}
    /\ pc' = "create"
    /\ UNCHANGED <<execucao, zips, novos, db_file, db_exists, progresso_existe, progresso, saida,
                   arquivos_zip, extraidos, n, arquivos, j, anexados, erro, substituicoes>>
    /\ UNCHANGED <<varsBaixa, varsLedger>>

\* Lines 131-133 with the table left to the first append to create.
CargaCreate_sem_tabela ==
    /\ pc = "create"
    /\ tabelas' = tabelas
    /\ arquivos' = glob(saida, TABELAS[n])
    /\ j' = 1
    /\ anexados' = [anexados EXCEPT ![TABELAS[n]] = {}]
    /\ pc' = "append"
    /\ UNCHANGED <<execucao, zips, novos, db_file, db_exists, progresso_existe, progresso, saida,
                   indices, arquivos_zip, extraidos, n, erro, substituicoes>>
    /\ UNCHANGED <<varsBaixa, varsLedger>>

\* Lines 131-133.
CargaCreate ==
    /\ pc = "create"
    /\ tabelas' = [tabelas EXCEPT ![TABELAS[n]] = [existe |-> TRUE, linhas |-> <<>>]]
    /\ arquivos' = glob(saida, TABELAS[n])
    /\ j' = 1
    /\ anexados' = [anexados EXCEPT ![TABELAS[n]] = {}]
    /\ pc' = "append"
    /\ UNCHANGED <<execucao, zips, novos, db_file, db_exists, progresso_existe, progresso, saida,
                   indices, arquivos_zip, extraidos, n, erro, substituicoes>>
    /\ UNCHANGED <<varsBaixa, varsLedger>>

\* Lines 134-137.
CargaAppend ==
    /\ pc = "append"
    /\ j <= Len(arquivos)
    /\ tabelas' = [tabelas EXCEPT ![TABELAS[n]] = to_sql_append(@, read_csv(arquivos[j]))]
    /\ anexados' = [anexados EXCEPT ![TABELAS[n]] = @ \cup {arquivos[j]}]
    /\ pc' = "remover"
    /\ UNCHANGED <<execucao, zips, novos, db_file, db_exists, progresso_existe, progresso, saida,
                   indices, arquivos_zip, extraidos, n, arquivos, j, erro, substituicoes>>
    /\ UNCHANGED <<varsBaixa, varsLedger>>

\* marcar_etapa_concluida indented into the loop body of lines 134-139.
CargaRemover_marca_no_laco ==
    /\ pc = "remover"
    /\ saida' = IF bApagaDescompactadosAposUso THEN saida \ {arquivos[j]} ELSE saida
    /\ progresso' = marcar_etapa_concluida(progresso, EtapaCarga(TABELAS[n]), execucao)
    /\ j' = j + 1
    /\ pc' = "append"
    /\ UNCHANGED <<execucao, zips, novos, db_file, db_exists, progresso_existe,
                   tabelas, indices, arquivos_zip, extraidos, n, arquivos, anexados, erro,
                   substituicoes>>
    /\ UNCHANGED <<varsBaixa, varsLedger>>

\* Lines 138-139, and the next iteration.
CargaRemover ==
    /\ pc = "remover"
    /\ saida' = IF bApagaDescompactadosAposUso THEN saida \ {arquivos[j]} ELSE saida
    /\ j' = j + 1
    /\ pc' = "append"
    /\ UNCHANGED <<execucao, zips, novos, db_file, db_exists, progresso_existe, progresso,
                   tabelas, indices, arquivos_zip, extraidos, n, arquivos, anexados, erro,
                   substituicoes>>
    /\ UNCHANGED <<varsBaixa, varsLedger>>

\* Line 140.
CargaMarcar ==
    /\ pc = "append"
    /\ j > Len(arquivos)
    /\ progresso' = marcar_etapa_concluida(progresso, EtapaCarga(TABELAS[n]), execucao)
    /\ pc' = Proximo("carga", n)[1]
    /\ n' = Proximo("carga", n)[2]
    /\ UNCHANGED <<execucao, zips, novos, db_file, db_exists, progresso_existe, saida, tabelas,
                   indices, arquivos_zip, extraidos, arquivos, j, anexados, erro,
                   substituicoes>>
    /\ UNCHANGED <<varsBaixa, varsLedger>>

PosicoesFinais == {"fim", "erro", "saiu", "parado"}

\* The process is terminated between two statements: what the statements
\* before it wrote and committed stays, the variables of the process are gone.
Interromper ==
    /\ pc \notin PosicoesFinais \cup {"fora"}
    /\ pc' = "parado"
    /\ db_exists' = FALSE
    /\ arquivos_zip' = <<>>
    /\ n' = 0
    /\ arquivos' = <<>>
    /\ j' = 0
    /\ UNCHANGED <<execucao, zips, novos, db_file, progresso_existe, progresso, saida,
                   tabelas, indices, extraidos, anexados, erro, substituicoes>>
    /\ UNCHANGED <<varsBaixa, varsLedger>>

\* The script is started again: module state starts afresh, the disk stays.
Reexecutar ==
    /\ pc \in PosicoesFinais
    /\ execucao < MaxExecucoes
    /\ execucao' = execucao + 1
    /\ pc' = "inicio"
    /\ db_exists' = FALSE
    /\ arquivos_zip' = <<>>
    /\ n' = 0
    /\ arquivos' = <<>>
    /\ j' = 0
    /\ erro' = ""
    /\ UNCHANGED <<zips, novos, db_file, progresso_existe, progresso, saida, tabelas, indices,
                   extraidos, anexados, substituicoes>>
    /\ UNCHANGED <<varsBaixa, varsLedger>>


\* Another archive is put in pasta_compactados (the directory line 55 lists)
\* once the ledger holds the extraction stage.
ChegaZip ==
    /\ pc # "fora"
    /\ etapa_concluida(progresso, EtapaDescompactar)
    /\ novos = {}
    /\ novos' = {[arq |-> NovoZip, chegada |-> execucao]}
    /\ UNCHANGED <<pc, execucao, zips, db_file, db_exists, progresso_existe, progresso, saida,
                   tabelas, indices, arquivos_zip, extraidos, n, arquivos, j, anexados,
                   erro, substituicoes>>
    /\ UNCHANGED <<varsBaixa, varsLedger>>

----------------------------------------------------------------------------
(* Calls of the ledger functions in any order *)

InitLedger ==
    /\ relogio = 1
    /\ vezes = [e \in ETAPAS |-> 0]

Total(f) ==
    LET RECURSIVE Soma(_)
        Soma(S) == IF S = {} THEN 0
                   ELSE LET e == CHOOSE x \in S : TRUE IN f[e] + Soma(S \ {e})
    IN Soma(DOMAIN f)

\* marcar_etapa_concluida(etapa) at time relogio.
Marcar ==
    /\ Total(vezes) < MaxMarcas
    /\ \E e \in ETAPAS :
        /\ progresso' = marcar_etapa_concluida(progresso, e, relogio)
        /\ vezes' = [vezes EXCEPT ![e] = @ + 1]
    /\ relogio' = relogio + 1
    /\ UNCHANGED <<varsBaixa, pc, execucao, zips, novos, db_file, db_exists, progresso_existe,
                   saida, tabelas, indices, arquivos_zip, extraidos, n, arquivos, j,
                   anexados, erro, substituicoes>>

----------------------------------------------------------------------------
(* Specifications *)

\* One call of download_file.
InitBaixaSo == InitBaixa /\ CargaParada /\ LedgerParado
NextBaixa ==
    \/ Sondar
    \/ VerificarLocal
    \/ Requisitar
    \/ RequisitarFalha
    \/ Abrir
    \/ EscreverChunk
    \/ FimDoCorpo
    \/ EscreverFalha
    \/ Validar
    \/ Except
    \/ Terminar
SpecBaixa == InitBaixaSo /\ [][NextBaixa]_vars

\* Runs of the loader script.
Init == InitCarga /\ BaixaParada /\ LedgerParado
Next ==
    \/ Conectar
    \/ CriarProgresso
    \/ Descompactar
    \/ Prompt
    \/ Extrair
    \/ MarcarDescompactar
    \/ CodigoInicio
    \/ CodigoToSql
    \/ CodigoIndex
    \/ CodigoRemover
    \/ CodigoMarcar
    \/ CargaInicio
    \/ CargaDrop
    \/ CargaCreate
    \/ CargaAppend
    \/ CargaRemover
    \/ CargaMarcar
    \/ Interromper
    \/ Reexecutar
    \/ ChegaZip
Spec == Init /\ [][Next]_vars

\* Calls of marcar_etapa_concluida on an existing ledger.
InitLedgerSo == InitLedger /\ CargaParada /\ BaixaParada
NextLedger == Marcar
SpecLedger == InitLedgerSo /\ [][NextLedger]_vars

----------------------------------------------------------------------------
(* Properties of download_file, checked under SpecBaixa *)

ProbeFalhou == sonda.tipo = "excecao" \/ (sonda.tipo = "resposta" /\ sonda.status # 200)

\* C3: when the process is terminated inside download_file, a file that this
\* call wrote at the destination path is complete and passes the size and ZIP
\* validation; a partially written file is never left there.
C3_NoPartialFileLeft ==
    (dpc = "terminado" /\ arquivo.origem = "download")
        => download_ok(arquivo, remote_size)

\* C4: a call whose download attempts all fail (network error, size mismatch
\* or invalid archive) returns False after exactly max_tentativas attempts and
\* leaves no file at the destination path.
C4_RetryExhaustion ==
    (dpc = "fim" /\ n_tentativas >= 1 /\ n_falhas = n_tentativas)
        => /\ retorno = "False"
           /\ n_tentativas = max_tentativas
           /\ ~os_path_exists(arquivo)

\* C4 witness: three attempts failed, one of them on a complete body that did
\* not validate, and the call has returned.
C4_Witness ==
    /\ dpc = "fim" /\ retorno = "False"
    /\ n_tentativas = 3 /\ n_falhas = 3 /\ n_validacoes >= 1

\* C5: a local file of the probed size that passes ZIP validation makes
\* download_file return True without any download attempt, the file unchanged.
C5_IdempotentSkip ==
    (inicial.existe /\ inicial.size = remote_size /\ inicial.zip_ok)
        => /\ n_tentativas = 0
           /\ arquivo = inicial
           /\ dpc \in {"local", "fim", "terminado"}
           /\ (dpc = "fim" => retorno = "True")

\* C5 witness: the call returned with the valid local copy in place.
C5_Witness ==
    /\ dpc = "fim" /\ retorno = "True"
    /\ inicial.existe /\ inicial.size = remote_size /\ inicial.zip_ok

\* C6: a local file of the probed size that fails ZIP validation is deleted
\* before any download attempt; download_file then downloads again with at
\* most max_tentativas attempts and never keeps or returns the stale file.
C6_CorruptionRecovery ==
    (inicial.existe /\ inicial.size = remote_size /\ ~inicial.zip_ok)
        => /\ (dpc \notin {"local", "terminado"} => arquivo.origem # "local")
           /\ (n_tentativas >= 1 => arquivo.origem # "local")
           /\ n_tentativas <= max_tentativas
           /\ (dpc = "fim" => n_tentativas >= 1)
           /\ (retorno = "True" =>
                 arquivo.origem = "download" /\ download_ok(arquivo, remote_size))

\* C6 witness: the stale file was replaced by a download that validated.
C6_Witness ==
    /\ inicial.existe /\ inicial.size = remote_size /\ ~inicial.zip_ok
    /\ dpc = "fim" /\ retorno = "True" /\ arquivo.origem = "download"

\* C10: when the size probe fails, download_file returns False at once: no
\* download attempt, the retry loop is not entered, the file is untouched.
C10_ProbeFailure ==
    ProbeFalhou
        => /\ dpc = "fim" /\ retorno = "False"
           /\ n_tentativas = 0 /\ tentativa = 0 /\ n_falhas = 0
           /\ arquivo = inicial

\* C10 witness: the probe raised while a file was at the destination path.
C10_Witness ==
    /\ sonda.tipo = "excecao" /\ dpc = "fim" /\ inicial.existe

\* The probe succeeded and no local copy was there when the call began.
SemCopiaLocal == ~inicial.existe /\ sonda.tipo = "resposta" /\ sonda.status = 200

\* C11 as stated: with no local copy and a successful probe, a call that
\* returned made 1 to 3 attempts and validated every one of them.
C11_CadaTentativaValidada ==
    (SemCopiaLocal /\ dpc = "fim")
        => /\ n_tentativas \in 1..max_tentativas
           /\ n_validacoes = n_tentativas

\* C11 amended: with no local copy and a successful probe, download_file
\* makes 1 to 3 attempts; every attempt whose body was streamed to its end
\* is validated before its outcome is decided, an attempt that raised fails
\* without validation; True is returned at the first attempt that validates
\* and no attempt follows it.
C11_TentativasEValidacao ==
    SemCopiaLocal
        => /\ n_tentativas <= max_tentativas
           /\ n_validacoes <= n_corpos /\ n_corpos <= n_tentativas
           /\ (dpc \notin {"validar", "terminado"} => n_validacoes = n_corpos)
           /\ (dpc = "fim" => n_tentativas >= 1)
           /\ (retorno = "True" =>
                 /\ dpc = "fim"
                 /\ n_validacoes >= 1
                 /\ n_falhas = n_tentativas - 1
                 /\ arquivo.existe /\ arquivo.zip_ok /\ arquivo.size = remote_size)
           /\ (retorno = "False" =>
                 n_tentativas = max_tentativas /\ n_falhas = max_tentativas)

\* C11 witness: the second attempt validated after the first one raised
\* before its body ended.
C11_Witness ==
    /\ SemCopiaLocal /\ dpc = "fim" /\ retorno = "True"
    /\ n_tentativas = 2 /\ n_validacoes = 1 /\ n_corpos = 1

\* C15: the probe yields 0 only when the remote declared a length of 0; a
\* length that could not be determined never becomes an expected size of 0.
C15_SentinelaNaoZero ==
    (sonda.tipo # "nenhuma" /\ remote_size = 0)
        => sonda.tipo = "resposta" /\ sonda.status = 200 /\ sonda.content_length = 0

\* C19: download_file returns True only with a file at the destination whose
\* size is the probed remote size and that passes ZIP validation.
C19_SucessoValidado ==
    retorno = "True"
        => /\ dpc = "fim"
           /\ sonda.tipo = "resposta" /\ sonda.status = 200 /\ remote_size >= 0
           /\ arquivo.existe /\ arquivo.zip_ok /\ arquivo.size = remote_size

\* C19 witness: True returned for a file written by the third attempt.
C19_Witness ==
    /\ retorno = "True" /\ arquivo.origem = "download" /\ n_tentativas = 3

----------------------------------------------------------------------------
(* Properties of the ledger functions, checked under SpecLedger *)

\* C7: after any number of calls of marcar_etapa_concluida the ledger holds
\* exactly one record, with status ok, for each stage marked at least once
\* and none for the others; etapa_concluida is true of exactly the marked
\* stages.
C7_MarcarIdempotente ==
    /\ {r.etapa : r \in progresso} = {e \in ETAPAS : vezes[e] >= 1}
    /\ \A e \in ETAPAS :
        /\ vezes[e] >= 1 =>
             /\ Cardinality({r \in progresso : r.etapa = e}) = 1
             /\ \A r \in progresso : r.etapa = e => r.status = "ok"
        /\ etapa_concluida(progresso, e) <=> vezes[e] >= 1

\* C7 witness: a stage was marked twice while another was never marked.
C7_Witness ==
    \E e, f \in ETAPAS : vezes[e] = 2 /\ vezes[f] = 0

----------------------------------------------------------------------------
(* Properties of the loader script, checked under Spec *)

Conta(s, x) == Cardinality({y \in DOMAIN s : s[y] = x})

\* The same rows, each the same number of times.
MesmasLinhas(a, b) ==
    /\ Len(a) = Len(b)
    /\ \A x \in Range(a) \cup Range(b) : Conta(a, x) = Conta(b, x)

RECURSIVE LinhasDe(_)
LinhasDe(lista) ==
    IF lista = <<>> THEN <<>> ELSE read_csv(Head(lista)) \o LinhasDe(Tail(lista))

\* The table an uninterrupted run leaves: the rows of every shard of t.
CargaCompleta(t) == LinhasDe(glob(zips, t))

\* C1: a fact table whose load was interrupted after some shards and was then
\* rerun to completion holds the same rows as after an uninterrupted run.
C1_RerunSameRows ==
    \A t \in Range(TABELAS) :
        etapa_concluida(progresso, EtapaCarga(t))
            => tabelas[t].existe /\ MesmasLinhas(tabelas[t].linhas, CargaCompleta(t))

\* C2: a lookup stage whose archive was extracted never ends a run with an
\* error, whatever point of carregaTabelaCodigo an earlier run was
\* interrupted at.
C2_LookupRestartable ==
    \A x \in DOMAIN LOOKUPS :
        Arq(LOOKUPS[x], 1) \in zips
            => ~(pc = "erro" /\ erro = "IndexError" /\ n = x)

\* C8: a lookup table holds exactly one row for each code of its source file,
\* however many times the stage loaded it.
C8_UmaLinhaPorCodigo ==
    \A t \in Range(LOOKUPS) :
        tabelas[t].existe =>
            /\ {r.codigo : r \in Range(tabelas[t].linhas)}
                 = {r.codigo : r \in Range(read_csv(Arq(t, 1)))}
            /\ \A c \in 1..LinhasPorArquivo :
                 Cardinality({y \in DOMAIN tabelas[t].linhas :
                                tabelas[t].linhas[y].codigo = c}) = 1

\* C8 witness: a lookup table was loaded twice.
C8_Witness ==
    \E t \in Range(LOOKUPS) : substituicoes[t] >= 2 /\ tabelas[t].existe

\* C9: a stage is ok in the ledger only when its effects are in place: every
\* archive found was extracted; the lookup table was replaced and indexed and
\* its source file deleted; every shard found was appended and deleted.
C9_MarcadaDepoisDosEfeitos ==
    /\ etapa_concluida(progresso, EtapaDescompactar) => extraidos = zips
    /\ \A t \in Range(LOOKUPS) :
        etapa_concluida(progresso, EtapaCodigo(t))
            => /\ tabelas[t] = to_sql_replace(TabelaAusente, read_csv(Arq(t, 1)))
               /\ t \in indices
               /\ (bApagaDescompactadosAposUso => glob(saida, t) = <<>>)
    /\ \A t \in Range(TABELAS) :
        etapa_concluida(progresso, EtapaCarga(t))
            => /\ tabelas[t].existe
               /\ MesmasLinhas(tabelas[t].linhas, LinhasDe(Lista(anexados[t])))
               /\ (bApagaDescompactadosAposUso => glob(saida, t) = <<>>)

\* C9 witness: a run ended with every stage ok and shards loaded.
C9_Witness ==
    /\ pc = "fim"
    /\ \A e \in ETAPAS : etapa_concluida(progresso, e)
    /\ \A t \in Range(TABELAS) : anexados[t] # {}

----------------------------------------------------------------------------
(* Properties of the stage order and of the ledger across runs, checked
   under Spec *)

\* The ledger holds an ok record of the stage.
Ok(etapa) == \E r \in progresso : r.etapa = etapa /\ r.status = "ok"

\* The positions of the script inside the work of a stage of each group.
PosicoesCodigo == {"codigo", "to_sql", "index", "remover_codigo", "marcar_codigo"}
PosicoesCarga == {"carga", "drop", "create", "append", "remover"}

TabelaVazia == [existe |-> TRUE, linhas |-> <<>>]

\* C12: the extraction stage is ok in the ledger only when every archive
\* found was extracted; while a run is at the prompt or inside the extraction
\* loop, or ended at the prompt, the stage is not ok; and the loop of any run
\* works through the whole list of archives from its first one.
C12_ExtracaoTudoOuNada ==
    /\ pc \in {"prompt", "extrair", "saiu"} => ~Ok(EtapaDescompactar)
    /\ pc = "extrair" =>
          /\ arquivos_zip = Lista(zips \cup Chegados)
          /\ extraidos = {arquivos_zip[x] : x \in 1..(j - 1)}
    /\ (\E a \in zips : a \notin extraidos) => ~Ok(EtapaDescompactar)

\* C12 witness: a second run starts the extraction loop at the first archive
\* although an earlier run had already extracted some.
C12_Witness ==
    /\ execucao = 2 /\ pc = "extrair" /\ j = 1
    /\ saida # {} /\ ~Ok(EtapaDescompactar)

\* C13: while the script is inside a lookup or fact stage, the extraction
\* stage and every stage before that one in the pipeline order are ok.
C13_OrdemDasEtapas ==
    /\ pc \in PosicoesCodigo =>
          /\ Ok(EtapaDescompactar)
          /\ \A x \in 1..(n - 1) : Ok(EtapaCodigo(LOOKUPS[x]))
    /\ pc \in PosicoesCarga =>
          /\ Ok(EtapaDescompactar)
          /\ \A x \in DOMAIN LOOKUPS : Ok(EtapaCodigo(LOOKUPS[x]))
          /\ \A x \in 1..(n - 1) : Ok(EtapaCarga(TABELAS[x]))

\* C13 witness: a second run is dropping the second fact table, the stages
\* before it having been marked by the first run.
C13_Witness ==
    /\ execucao = 2 /\ pc = "drop" /\ n = 2
    /\ \E r \in progresso : r.etapa = EtapaCarga(TABELAS[1]) /\ r.data_execucao = 1

\* C14: a step of the loader leaves alone what belongs to a stage that is
\* ok: no archive is extracted once descompactar is ok, the table, index and
\* extracted files of an ok lookup or fact stage stay as they are, and once
\* every stage is ok no table, file or ledger record changes.
C14_PulaEtapasConcluidas ==
    [][ /\ Ok(EtapaDescompactar) => extraidos' = extraidos /\ saida' \subseteq saida
        /\ \A t \in Range(LOOKUPS) :
              Ok(EtapaCodigo(t)) =>
                  /\ tabelas'[t] = tabelas[t]
                  /\ (t \in indices') = (t \in indices)
                  /\ glob(saida', t) = glob(saida, t)
        /\ \A t \in Range(TABELAS) :
              Ok(EtapaCarga(t)) =>
                  /\ tabelas'[t] = tabelas[t]
                  /\ anexados'[t] = anexados[t]
                  /\ glob(saida', t) = glob(saida, t)
        /\ (\A e \in ETAPAS : Ok(e)) =>
              /\ tabelas' = tabelas /\ indices' = indices
              /\ saida' = saida /\ progresso' = progresso
      ]_vars

\* C14 witness: a second run reached its end with every stage marked by the
\* first run.
C14_Witness ==
    /\ execucao = 2 /\ pc = "fim"
    /\ \A e \in ETAPAS : \E r \in progresso : r.etapa = e /\ r.status = "ok" /\ r.data_execucao = 1

\* C16: a step never removes or changes an ok record of the ledger, and the
\* only change it makes to the ledger is to add the ok record, stamped with
\* the current run, of a stage that was not ok.
C16_RegistroOkImutavel ==
    [][ /\ \A r \in progresso : r.status = "ok" => r \in progresso'
        /\ progresso' # progresso =>
              \E e \in ETAPAS :
                  /\ ~Ok(e)
                  /\ progresso' = progresso
                        \cup {[etapa |-> e, status |-> "ok", data_execucao |-> execucao]}
      ]_vars

\* C16 witness: the ledger holds records of two runs.
C16_Witness ==
    /\ execucao = 2
    /\ \E r \in progresso : r.data_execucao = 1
    /\ \E r \in progresso : r.data_execucao = 2

\* C17: a fact stage that found no extracted file of its table leaves the
\* table created and empty and is marked ok, and no run ends with an error
\* raised by a fact stage.
C17_SemArquivoTabelaVazia ==
    /\ (pc = "append" /\ arquivos = <<>>) =>
          /\ j > Len(arquivos)
          /\ tabelas[TABELAS[n]] = TabelaVazia
          /\ erro = ""
    /\ \A t \in Range(TABELAS) :
          (Ok(EtapaCarga(t)) /\ anexados[t] = {}) => tabelas[t] = TabelaVazia
    /\ pc = "erro" => ~Ok(EtapaCodigo(LOOKUPS[Len(LOOKUPS)]))

\* C17 witness: a run over a directory without shards ended with the first
\* fact stage ok and its table empty.
C17_Witness ==
    /\ pc = "fim" /\ glob(zips, TABELAS[1]) = <<>>
    /\ Ok(EtapaCarga(TABELAS[1])) /\ tabelas[TABELAS[1]] = TabelaVazia

\* C18: when a run makes its first ledger query (line 53), the table
\* _progresso exists.
C18_LedgerExisteAntesDaConsulta ==
    pc = "descompactar" => progresso_existe

\* C20: an archive that reached the download directory after descompactar
\* was marked ok is never extracted and none of its rows is in any table.
C20_NovoZipNuncaExtraido ==
    \A x \in novos :
        /\ Ok(EtapaDescompactar)
        /\ x.arq \notin saida /\ x.arq \notin extraidos
        /\ \A t \in Range(TABELAS) : x.arq \notin anexados[t]
        /\ \A y \in DOMAIN tabelas[x.arq.tabela].linhas :
              tabelas[x.arq.tabela].linhas[y].parte # x.arq.parte

\* C20 witness: a second run is loading the fact table of an archive that
\* arrived during the first run, after the extraction stage was marked.
C20_Witness ==
    /\ execucao = 2 /\ pc = "append" /\ TABELAS[n] = NovoZip.tabela
    /\ \E x \in novos : x.chegada = 1

====
